---- MODULE Spec2Model ----
(***************************************************************************)
(* keccak256/src/gates/running_sum.rs: the rho-step lane rotation and      *)
(* base-13 to base-9 conversion gates.                                     *)
(*                                                                         *)
(* A BigUint is a little-endian sequence of limbs in 0..LimbBase-1 without *)
(* high zero limbs (zero is <<>>), so that equal numbers are equal         *)
(* sequences.  A field element of F is the BigUint below the modulus P.    *)
(***************************************************************************)
EXTENDS Integers, Sequences, FiniteSets, TLC

\* ------------------------------------------------------------------------
\* BigUint arithmetic (num_bigint::BigUint)
\* ------------------------------------------------------------------------
LimbBase == 10000

Limb(x, i) == IF i <= Len(x) THEN x[i] ELSE 0

RECURSIVE BigNorm(_)
BigNorm(x) ==
    IF x = <<>> THEN <<>>
    ELSE IF x[Len(x)] = 0 THEN BigNorm(SubSeq(x, 1, Len(x) - 1))
    ELSE x

\* x * LimbBase^k
BigShift(x, k) == IF x = <<>> THEN <<>> ELSE [i \in 1..k |-> 0] \o x

\* a machine integer 0 <= n < 2^31 as a BigUint
BigFromInt(n) ==
    BigNorm(<<n % LimbBase, (n \div LimbBase) % LimbBase,
              n \div (LimbBase * LimbBase)>>)

RECURSIVE AddFrom(_, _, _, _)
AddFrom(x, y, i, carry) ==
    IF i > Len(x) /\ i > Len(y)
    THEN (IF carry = 0 THEN <<>> ELSE <<carry>>)
    ELSE <<(Limb(x, i) + Limb(y, i) + carry) % LimbBase>>
         \o AddFrom(x, y, i + 1, (Limb(x, i) + Limb(y, i) + carry) \div LimbBase)

BigAdd(x, y) ==
    IF y = <<>> THEN x ELSE IF x = <<>> THEN y ELSE AddFrom(x, y, 1, 0)

RECURSIVE CmpFrom(_, _, _)
CmpFrom(x, y, i) ==
    IF i = 0 THEN 0
    ELSE IF x[i] < y[i] THEN -1
    ELSE IF x[i] > y[i] THEN 1
    ELSE CmpFrom(x, y, i - 1)

\* -1, 0, 1 as x is below, equal to, above y
BigCmp(x, y) ==
    IF Len(x) < Len(y) THEN -1
    ELSE IF Len(x) > Len(y) THEN 1
    ELSE CmpFrom(x, y, Len(x))

BigLt(x, y) == BigCmp(x, y) = -1
BigLe(x, y) == BigCmp(x, y) /= 1

RECURSIVE SubFrom(_, _, _, _)
SubFrom(x, y, i, borrow) ==
    IF i > Len(x) THEN <<>>
    ELSE IF x[i] - Limb(y, i) - borrow < 0
    THEN <<x[i] - Limb(y, i) - borrow + LimbBase>> \o SubFrom(x, y, i + 1, 1)
    ELSE <<x[i] - Limb(y, i) - borrow>> \o SubFrom(x, y, i + 1, 0)

\* x - y for x >= y (BigUint subtraction panics below zero)
BigSub(x, y) == IF y = <<>> THEN x ELSE BigNorm(SubFrom(x, y, 1, 0))

RECURSIVE MulSmallFrom(_, _, _, _)
MulSmallFrom(x, m, i, carry) ==
    IF i > Len(x)
    THEN BigFromInt(carry)
    ELSE <<(x[i] * m + carry) % LimbBase>>
         \o MulSmallFrom(x, m, i + 1, (x[i] * m + carry) \div LimbBase)

\* x * m for a machine integer 0 <= m < 2^31 \div LimbBase
BigMulSmall(x, m) ==
    IF m = 0 \/ x = <<>> THEN <<>> ELSE MulSmallFrom(x, m, 1, 0)

\* x * (the limbs i.. of y); the partial product is bound as a value, so
\* that partial products do not pile up as unevaluated expressions
RECURSIVE MulFrom(_, _, _)
MulFrom(x, y, i) ==
    IF i > Len(y) THEN <<>>
    ELSE CHOOSE v \in { BigAdd(BigMulSmall(x, y[i]), BigShift(rest, 1)) :
                        rest \in { MulFrom(x, y, i + 1) } } : TRUE

BigMul(x, y) == IF Len(y) <= Len(x) THEN MulFrom(x, y, 1) ELSE MulFrom(y, x, 1)

\* long division by a machine integer, most significant limb first
RECURSIVE DivSmallFrom(_, _, _, _)
DivSmallFrom(x, m, j, rem) ==
    IF j = 0 THEN [q |-> <<>>, r |-> rem]
    ELSE LET rest == DivSmallFrom(x, m, j - 1, (rem * LimbBase + x[j]) % m)
         IN  [q |-> Append(rest.q, (rem * LimbBase + x[j]) \div m), r |-> rest.r]

\* x / m for a machine integer 0 < m < 2^31 \div LimbBase
BigDivSmall(x, m) == BigNorm(DivSmallFrom(x, m, Len(x), 0).q)
RECURSIVE IntPow(_, _)
IntPow(b, e) == IF e = 0 THEN 1 ELSE b * IntPow(b, e - 1)

\* b^e for a machine integer b, by squaring
RECURSIVE BigPow(_, _)
BigPow(b, e) ==
    IF e = 0 THEN <<1>>
    ELSE CHOOSE v \in { IF e % 2 = 0 THEN BigMul(h, h)
                                      ELSE BigMulSmall(BigMul(h, h), b) :
                        h \in { BigPow(b, e \div 2) } } : TRUE

\* ------------------------------------------------------------------------
\* The field F (pasta_curves FieldExt): integers modulo the prime P
\* ------------------------------------------------------------------------
\* 0x40000000000000000000000000000000224698fc094cf91b992d30ed00000001
P == <<337, 6763, 3499, 6764, 5467, 7159, 1560, 8194, 564, 3363, 7696, 1719,
       6252, 9274, 8558, 9048, 932, 223, 8948, 2>>

\* largest q in lo..hi-1 with P * q <= x, given P * lo <= x < P * hi
RECURSIVE QuotSearch(_, _, _)
QuotSearch(x, lo, hi) ==
    IF hi - lo <= 1 THEN lo
    ELSE IF BigLe(BigMulSmall(P, (lo + hi) \div 2), x)
    THEN QuotSearch(x, (lo + hi) \div 2, hi)
    ELSE QuotSearch(x, lo, (lo + hi) \div 2)

\* cur mod P for cur < 2 * LimbBase * P.  The quotient is at most the
\* quotient qhat of the leading limbs of cur by the two leading limbs of P,
\* and is searched for just below qhat first.
FReduceStep(cur) ==
    IF BigLt(cur, P) THEN cur
    ELSE LET n == Len(P)
             qhat == (Limb(cur, n + 1) * LimbBase * LimbBase
                        + Limb(cur, n) * LimbBase + Limb(cur, n - 1))
                     \div (P[n] * LimbBase + P[n - 1])
             lo == IF qhat >= 3 /\ BigLe(BigMulSmall(P, qhat - 3), cur)
                   THEN qhat - 3 ELSE 0
         IN  BigSub(cur, BigMulSmall(P, QuotSearch(cur, lo, qhat + 1)))

\* a * (limbs i.. of b) mod P, most significant limb of b first; the partial
\* product is bound as a value at every limb
RECURSIVE FMulFrom(_, _, _)
FMulFrom(a, b, i) ==
    IF i > Len(b) THEN <<>>
    ELSE CHOOSE v \in { FReduceStep(BigAdd(BigShift(hi, 1), BigMulSmall(a, b[i]))) :
                        hi \in { FMulFrom(a, b, i + 1) } } : TRUE

FAdd(a, b) == FReduceStep(BigAdd(a, b))
FSub(a, b) == IF BigLe(b, a) THEN BigSub(a, b) ELSE BigSub(BigAdd(a, P), b)
FMul(a, b) ==
    IF a = <<>> \/ b = <<>> THEN <<>>
    ELSE IF Len(b) <= Len(a) THEN FMulFrom(a, b, 1) ELSE FMulFrom(b, a, 1)

\* a^e in F, by squaring
RECURSIVE FPow(_, _)
FPow(a, e) ==
    IF e = 0 THEN <<1>>
    ELSE CHOOSE v \in { IF e % 2 = 0 THEN FMul(h, h) ELSE FMul(FMul(h, h), a) :
                        h \in { FPow(a, e \div 2) } } : TRUE

\* ------------------------------------------------------------------------
\* Constants of the crate and the external helpers and tables
\* ------------------------------------------------------------------------
B13 == 13
B9 == 9
LANE_SIZE == 64
BASE_NUM_OF_CHUNKS == 4
\* the number of lanes of the state, [BlockCount2<F>; 25]
NumLanes == 25

\* an advice cell nobody assigned, and the None of an Option
NoVal == <<-1>>

\* gate_helpers: a BigUint embeds into F when it is below the modulus
biguint_to_f(x) == IF BigLt(x, P) THEN x ELSE NoVal
\* gate_helpers: the canonical integer of a field element
f_to_biguint(f) == f

\* arith_helpers: the base-9 digit of a base-13 digit (its parity)
convert_b13_coef(d) == d % 2

\* tables: the base13-to-base9 table, digit by digit over the four chunks of
\* a coefficient below 13^4.  k is the block count the table reports.
get_block_count_and_output_coef(k, input_coef) ==
    [block_count |-> k,
     output_coef |->
          convert_b13_coef(input_coef % B13)
        + convert_b13_coef((input_coef \div B13) % B13) * B9
        + convert_b13_coef((input_coef \div (B13 * B13)) % B13) * B9 * B9
        + convert_b13_coef((input_coef \div (B13 * B13 * B13)) % B13) * B9 * B9 * B9]

\* ------------------------------------------------------------------------
\* The chunk slicer
\* ------------------------------------------------------------------------
\* get_step_size without the truncation near the end of the lane
get_step_size_no_lane_end(chunk_idx, rotation) ==
    IF chunk_idx < rotation /\ rotation < chunk_idx + BASE_NUM_OF_CHUNKS
    THEN rotation - chunk_idx
    ELSE BASE_NUM_OF_CHUNKS

\* get_step_size with the end of the lane looked at before the rotation
get_step_size_lane_end_first(chunk_idx, rotation) ==
    IF chunk_idx < LANE_SIZE /\ LANE_SIZE < chunk_idx + BASE_NUM_OF_CHUNKS
    THEN LANE_SIZE - chunk_idx
    ELSE IF chunk_idx < rotation /\ rotation < chunk_idx + BASE_NUM_OF_CHUNKS
    THEN rotation - chunk_idx
    ELSE BASE_NUM_OF_CHUNKS

get_step_size(chunk_idx, rotation) ==
    IF chunk_idx < rotation /\ rotation < chunk_idx + BASE_NUM_OF_CHUNKS
    THEN rotation - chunk_idx
    ELSE IF chunk_idx < LANE_SIZE /\ LANE_SIZE < chunk_idx + BASE_NUM_OF_CHUNKS
    THEN LANE_SIZE - chunk_idx
    ELSE BASE_NUM_OF_CHUNKS

is_at_rotation_offset(chunk_idx, rotation) == chunk_idx = LANE_SIZE - rotation

\* the while loop of slice_lane from chunk_idx on: (end index, step) pairs
RECURSIVE SliceFrom(_, _)
SliceFrom(chunk_idx, rotation) ==
    IF chunk_idx < LANE_SIZE
    THEN <<[chunk_idx |-> chunk_idx + get_step_size(chunk_idx, rotation),
            step |-> get_step_size(chunk_idx, rotation)]>>
         \o SliceFrom(chunk_idx + get_step_size(chunk_idx, rotation), rotation)
    ELSE <<>>

slice_lane(rotation) == SliceFrom(1, rotation)

\* the chunk configurations made in the opposite order of the slices
chunk_rotate_convert_configs_reversed(rotation) ==
    LET slices == slice_lane(rotation)
        n == Len(slices)
    IN  [i \in 1..n |->
            [step |-> slices[n + 1 - i].step,
             is_at_rotation_offset |->
                is_at_rotation_offset(slices[n + 1 - i].chunk_idx, rotation)]]

\* LaneRotateConversionConfig::configure: one chunk configuration per slice
chunk_rotate_convert_configs(rotation) ==
    LET slices == slice_lane(rotation)
    IN  [i \in 1..Len(slices) |->
            [step |-> slices[i].step,
             is_at_rotation_offset |->
                is_at_rotation_offset(slices[i].chunk_idx, rotation)]]

\* BlockCountAccConfig::configure aborts on a step outside 1..4
ConfigureAborts(cfgs) == \E i \in 1..Len(cfgs) : cfgs[i].step \notin {1, 2, 3, 4}

\* ------------------------------------------------------------------------
\* Regions: the advice cells a region callback assigned.  A region is a
\* function from <<column, row>> to the value last assigned and the number of
\* assignments of the cell.
\* ------------------------------------------------------------------------
EmptyRegion == [c \in {} |-> [val |-> NoVal, n |-> 0]]

\* region.assign_advice(column, offset, || Ok(v))
assign_advice(reg, column, row, v) ==
    [c \in (DOMAIN reg) \cup {<<column, row>>} |->
        IF c = <<column, row>>
        THEN [val |-> v, n |-> IF c \in DOMAIN reg THEN reg[c].n + 1 ELSE 1]
        ELSE reg[c]]

CellVal(reg, column, row) ==
    IF <<column, row>> \in DOMAIN reg THEN reg[<<column, row>>].val ELSE NoVal

Assigned(reg, column, row) == <<column, row>> \in DOMAIN reg

\* the columns of a lane-rotate-conversion: coef, power of base, accumulator
base_13_cols == <<"b13_coef", "b13_power_of_base", "b13_acc">>
base_9_cols == <<"b9_coef", "b9_power_of_base", "b9_acc">>
\* block count, step 2 acc, step 3 acc
block_count_cols == <<"block_count", "step2_acc", "step3_acc">>

\* ------------------------------------------------------------------------
\* RunningSumConfig::assign_region: coef, power_of_base and accumulator are
\* embedded and assigned in this order; the first value that does not embed
\* ends the callback with an error, the earlier cells being assigned.
\* ------------------------------------------------------------------------
\* the three cells assigned whether or not the values embed, with no error
RunningSumAssignUnchecked(reg, cols, offset, coef, power_of_base, acc) ==
    [ok |-> TRUE,
     reg |-> assign_advice(
                 assign_advice(
                     assign_advice(reg, cols[1], offset, biguint_to_f(coef)),
                     cols[2], offset, biguint_to_f(power_of_base)),
                 cols[3], offset, biguint_to_f(acc))]

RunningSumAssign(reg, cols, offset, coef, power_of_base, acc) ==
    IF biguint_to_f(coef) = NoVal
    THEN [ok |-> FALSE, reg |-> reg]
    ELSE IF biguint_to_f(power_of_base) = NoVal
    THEN [ok |-> FALSE,
          reg |-> assign_advice(reg, cols[1], offset, biguint_to_f(coef))]
    ELSE IF biguint_to_f(acc) = NoVal
    THEN [ok |-> FALSE,
          reg |-> assign_advice(
                      assign_advice(reg, cols[1], offset, biguint_to_f(coef)),
                      cols[2], offset, biguint_to_f(power_of_base))]
    ELSE [ok |-> TRUE,
          reg |-> assign_advice(
                      assign_advice(
                          assign_advice(reg, cols[1], offset, biguint_to_f(coef)),
                          cols[2], offset, biguint_to_f(power_of_base)),
                      cols[3], offset, biguint_to_f(acc))]

\* BlockCountAccConfig::assign_region: the block count and the two running
\* totals as given; returns the two total cells with their values
BlockCountAccAssign(reg, id, offset, block_count, block_count_acc) ==
    [reg |-> assign_advice(
                 assign_advice(
                     assign_advice(reg, block_count_cols[1], offset, block_count),
                     block_count_cols[2], offset, block_count_acc[1]),
                 block_count_cols[3], offset, block_count_acc[2]),
     block_counts |->
         <<[cell |-> <<id, block_count_cols[2], offset>>, value |-> block_count_acc[1]],
           [cell |-> <<id, block_count_cols[3], offset>>, value |-> block_count_acc[2]]>>]

\* RotatingVariables::from with the input accumulator starting from zero
RotatingVariablesFromZeroAcc(lane_base_13, rotation) ==
    [input_raw |-> f_to_biguint(lane_base_13),
     input_power_of_base |-> BigFromInt(B13),
     input_acc |-> <<>>,
     output_power_of_base |->
         IF is_at_rotation_offset(1, rotation) THEN <<1>>
         ELSE BigPow(B9, rotation + 1),
     output_acc |-> <<>>,
     block_count_acc |-> << <<>>, <<>> >>]

\* RotatingVariables::from with the input power starting from one
RotatingVariablesFromOne(lane_base_13, rotation) ==
    [input_raw |-> f_to_biguint(lane_base_13),
     input_power_of_base |-> <<1>>,
     input_acc |-> f_to_biguint(lane_base_13),
     output_power_of_base |->
         IF is_at_rotation_offset(1, rotation) THEN <<1>>
         ELSE BigPow(B9, rotation + 1),
     output_acc |-> <<>>,
     block_count_acc |-> << <<>>, <<>> >>]

\* RotatingVariables::from
RotatingVariablesFrom(lane_base_13, rotation) ==
    [input_raw |-> f_to_biguint(lane_base_13),
     input_power_of_base |-> BigFromInt(B13),
     input_acc |-> f_to_biguint(lane_base_13),
     output_power_of_base |->
         IF is_at_rotation_offset(1, rotation) THEN <<1>>
         ELSE BigPow(B9, rotation + 1),
     output_acc |-> <<>>,
     block_count_acc |-> << <<>>, <<>> >>]

NoBlockCounts == <<>>

\* input_acc left as it was
input_acc_stale(input_acc, input_power_of_base, input_coef) == input_acc

\* rv.input_acc -= rv.input_power_of_base * input_coef
input_acc_next(input_acc, input_power_of_base, input_coef) ==
    BigSub(input_acc, BigMulSmall(input_power_of_base, input_coef))

\* the output accumulator left as it was
output_acc_stale(output_acc, output_power_of_base, output_coef) == output_acc

\* rv.output_acc += rv.output_power_of_base * output_coef
output_acc_next(output_acc, output_power_of_base, output_coef) ==
    BigAdd(output_acc, BigMulSmall(output_power_of_base, output_coef))

\* rv.output_power_of_base = if self.is_at_rotation_offset { one } else { .. }
output_power_of_base_next(at_rotation_offset, output_power_of_base, output_base_to_step) ==
    IF at_rotation_offset THEN <<1>>
    ELSE BigMulSmall(output_power_of_base, output_base_to_step)

\* the block count added to the other total
block_count_acc_swapped(step, block_count_acc, block_count) ==
    IF step = 3
    THEN <<FAdd(block_count_acc[1], block_count), block_count_acc[2]>>
    ELSE IF step = 2
    THEN <<block_count_acc[1], FAdd(block_count_acc[2], block_count)>>
    ELSE block_count_acc

\* match self.step: the total the block count of the row is added to
block_count_acc_next(step, block_count_acc, block_count) ==
    IF step = 2
    THEN <<FAdd(block_count_acc[1], block_count), block_count_acc[2]>>
    ELSE IF step = 3
    THEN <<block_count_acc[1], FAdd(block_count_acc[2], block_count)>>
    ELSE block_count_acc

\* the input power left as it was
input_power_of_base_stale(input_power_of_base, input_base_to_step) ==
    input_power_of_base

\* rv.input_power_of_base *= input_base_to_step
input_power_of_base_next(input_power_of_base, input_base_to_step) ==
    BigMulSmall(input_power_of_base, input_base_to_step)

\* ChunkRotateConversionConfig::assign_region for the configuration cfg with
\* the table's block count k.  status is "ok", "error" (a value does not
\* embed), "panic" (BigUint subtraction below zero) or "abort" (unreachable!).
ChunkAssign(cfg, reg, id, offset, rv, k) ==
    LET input_base_to_step == IntPow(B13, cfg.step)
        dm == DivSmallFrom(rv.input_raw, input_base_to_step, Len(rv.input_raw), 0)
        input_coef == dm.r
        b13 == RunningSumAssign(reg, base_13_cols, offset, BigFromInt(input_coef),
                                rv.input_power_of_base, rv.input_acc)
        rv1 == [rv EXCEPT !.input_acc =
                              input_acc_next(@, rv.input_power_of_base, input_coef),
                          !.input_raw = BigNorm(dm.q),
                          !.input_power_of_base =
                              input_power_of_base_next(@, input_base_to_step)]
        looked == get_block_count_and_output_coef(k, input_coef)
        output_base_to_step == IntPow(B9, cfg.step)
        b9 == RunningSumAssign(b13.reg, base_9_cols, offset,
                               BigFromInt(looked.output_coef),
                               rv1.output_power_of_base, rv1.output_acc)
        rv2 == [rv1 EXCEPT
                  !.output_acc = output_acc_next(@, rv1.output_power_of_base,
                                                 looked.output_coef),
                  !.output_power_of_base =
                      output_power_of_base_next(cfg.is_at_rotation_offset, @,
                                                output_base_to_step)]
        block_count == BigFromInt(looked.block_count)
        rv3 == [rv2 EXCEPT
                  !.block_count_acc = block_count_acc_next(cfg.step, @, block_count)]
        bc == BlockCountAccAssign(b9.reg, id, offset, block_count, rv3.block_count_acc)
    IN  IF ~b13.ok
        THEN [status |-> "error", reg |-> b13.reg, rv |-> rv,
              block_counts |-> NoBlockCounts]
        ELSE IF BigLt(rv.input_acc, BigMulSmall(rv.input_power_of_base, input_coef))
        THEN [status |-> "panic", reg |-> b13.reg, rv |-> rv,
              block_counts |-> NoBlockCounts]
        ELSE IF ~b9.ok
        THEN [status |-> "error", reg |-> b9.reg, rv |-> rv1,
              block_counts |-> NoBlockCounts]
        ELSE IF cfg.step \notin {1, 2, 3, 4}
        THEN [status |-> "abort", reg |-> b9.reg, rv |-> rv2,
              block_counts |-> NoBlockCounts]
        ELSE [status |-> "ok", reg |-> bc.reg, rv |-> rv3,
              block_counts |-> bc.block_counts]

\* the special chunk assigned one row up, on the last chunk row and the row
\* after it
SpecialChunkAssignOneRowUp(reg, id, offset, rotation, low_value, high_value, base_13_acc, base_9_acc) ==
    LET last_pow_of_9 == FPow(BigFromInt(B9), rotation)
        last_b9_coef == biguint_to_f(BigFromInt((high_value + low_value) % 2))
        value == FAdd(biguint_to_f(base_9_acc), FMul(last_b9_coef, last_pow_of_9))
        r1 == assign_advice(reg, base_13_cols[3], offset - 1, biguint_to_f(base_13_acc))
        r2 == assign_advice(r1, base_13_cols[3], offset, <<>>)
        r3 == assign_advice(r2, base_9_cols[3], offset - 1, biguint_to_f(base_9_acc))
        r4 == assign_advice(r3, base_9_cols[3], offset, value)
    IN  IF biguint_to_f(base_13_acc) = NoVal
        THEN [ok |-> FALSE, reg |-> reg, lane |-> NoVal]
        ELSE IF biguint_to_f(base_9_acc) = NoVal
        THEN [ok |-> FALSE, reg |-> r2, lane |-> NoVal]
        ELSE [ok |-> TRUE, reg |-> r4,
              lane |-> [cell |-> <<id, base_9_cols[3], offset>>, value |-> value]]

\* SpecialChunkConfig::assign_region; q_enable is enabled at offset before
\* anything else (by the action).  Returns the rotated lane.
SpecialChunkAssign(reg, id, offset, rotation, low_value, high_value, base_13_acc, base_9_acc) ==
    LET last_pow_of_9 == FPow(BigFromInt(B9), rotation)
        last_b9_coef == biguint_to_f(BigFromInt((high_value + low_value) % 2))
        value == FAdd(biguint_to_f(base_9_acc), FMul(last_b9_coef, last_pow_of_9))
        r1 == assign_advice(reg, base_13_cols[3], offset, biguint_to_f(base_13_acc))
        r2 == assign_advice(r1, base_13_cols[3], offset + 1, <<>>)
        r3 == assign_advice(r2, base_9_cols[3], offset, biguint_to_f(base_9_acc))
        r4 == assign_advice(r3, base_9_cols[3], offset + 1, value)
    IN  IF biguint_to_f(base_13_acc) = NoVal
        THEN [ok |-> FALSE, reg |-> reg, lane |-> NoVal]
        ELSE IF biguint_to_f(base_9_acc) = NoVal
        THEN [ok |-> FALSE, reg |-> r2, lane |-> NoVal]
        ELSE [ok |-> TRUE, reg |-> r4,
              lane |-> [cell |-> <<id, base_9_cols[3], offset + 1>>, value |-> value]]

\* ------------------------------------------------------------------------
\* The gates, evaluated on the cells of a region at a row.  A polynomial is
\* satisfied when its value is zero, <<>>.
\* ------------------------------------------------------------------------
\* RunningSumConfig gate "mul", the running polynomial:
\* delta_acc + coef * power_of_base (input), delta_acc - coef * power_of_base
mul_running_poly(reg, cols, is_input, row) ==
    IF is_input
    THEN FAdd(FSub(CellVal(reg, cols[3], row + 1), CellVal(reg, cols[3], row)),
              FMul(CellVal(reg, cols[1], row), CellVal(reg, cols[2], row)))
    ELSE FSub(FSub(CellVal(reg, cols[3], row + 1), CellVal(reg, cols[3], row)),
              FMul(CellVal(reg, cols[1], row), CellVal(reg, cols[2], row)))

\* RunningSumConfig gate "mul": next_power_of_base - power_of_base * base_to_step
mul_power_poly(reg, cols, base, step, row) ==
    FSub(CellVal(reg, cols[2], row + 1),
         FMul(CellVal(reg, cols[2], row), BigFromInt(IntPow(base, step))))

\* the advice column SpecialChunkConfig::configure makes for itself
last_b9_coef_col == "last_b9_coef"

\* SpecialChunkConfig gate "validate base_9_acc":
\* delta_base_9_acc - last_b9_coef * pow_of_9
validate_base_9_acc_poly(reg, rotation, row) ==
    FSub(FSub(CellVal(reg, base_9_cols[3], row + 1), CellVal(reg, base_9_cols[3], row)),
         FMul(CellVal(reg, last_b9_coef_col, row), FPow(BigFromInt(B9), rotation)))

\* BlockCountAccConfig gate "accumulate block count": the polynomials of a step
accumulate_block_count_polys(reg, step, row) ==
    LET block_count == CellVal(reg, block_count_cols[1], row)
        delta_step2 == FSub(CellVal(reg, block_count_cols[2], row + 1),
                            CellVal(reg, block_count_cols[2], row))
        delta_step3 == FSub(CellVal(reg, block_count_cols[3], row + 1),
                            CellVal(reg, block_count_cols[3], row))
    IN  IF step \in {1, 4} THEN <<block_count, delta_step2, delta_step3>>
        ELSE IF step = 2 THEN <<FSub(delta_step2, block_count), delta_step3>>
        ELSE <<delta_step2, FSub(delta_step3, block_count)>>

\* the columns of the final block count check: step 2 acc, step 3 acc
final_block_count_cols == <<"step2_acc", "step3_acc">>

\* (v - lo) * .. * (v - hi) times acc, term by term
RECURSIVE RangeProductBlock(_, _, _, _)
RangeProductBlock(v, acc, lo, hi) ==
    IF lo > hi THEN acc
    ELSE RangeProductBlock(v, FMul(acc, FSub(v, BigFromInt(lo))), lo + 1, hi)

\* the same in blocks of 16 terms, each block product bound as a value
RECURSIVE RangeProductFrom(_, _, _, _)
RangeProductFrom(v, acc, lo, hi) ==
    IF lo > hi THEN acc
    ELSE CHOOSE w \in { RangeProductFrom(v, b, lo + 16, hi) :
                        b \in { RangeProductBlock(v, acc, lo,
                                    IF lo + 15 < hi THEN lo + 15 ELSE hi) } } : TRUE

\* (0..=n).map(|x| v - F::from(x)).reduce(|a, b| a * b)
RangeProductInclusive(v, n) == RangeProductFrom(v, FSub(v, <<>>), 1, n)

\* (0..n).map(|x| v - F::from(x)).reduce(|a, b| a * b)
RangeProductExclusive(v, n) == RangeProductFrom(v, FSub(v, <<>>), 1, n - 1)

\* the final check with the ranges 0..12 and 0..13 * 13 for 0..=12 and 0..=13 * 13
block_count_final_polys_exclusive(reg, q_enable, row) ==
    <<FMul(q_enable, RangeProductExclusive(CellVal(reg, final_block_count_cols[1], row), 12)),
      FMul(q_enable, RangeProductExclusive(CellVal(reg, final_block_count_cols[2], row), 13 * 13))>>

\* BlockCountFinalConfig gate "block count final check": "step2_acc <=12" and
\* "step3_acc <= 13 * 13", each times q_enable
block_count_final_polys(reg, q_enable, row) ==
    <<FMul(q_enable, RangeProductInclusive(CellVal(reg, final_block_count_cols[1], row), 12)),
      FMul(q_enable, RangeProductInclusive(CellVal(reg, final_block_count_cols[2], row), 13 * 13))>>

\* ------------------------------------------------------------------------
\* Inputs: lane values, block counts of the table, rotation tables
\* ------------------------------------------------------------------------
NumSeeds == 2
MaxBlockCount == 2
NumTables == 2

\* digit i (0..64) of the lane value of seed s
LaneDigit(s, i) == IF i > LANE_SIZE THEN 0 ELSE (s * (i + 1) + (i \div B13)) % B13

\* four digits from position i as an integer below 13^4
LaneDigits4(s, i) ==
      LaneDigit(s, i) + LaneDigit(s, i + 1) * B13
    + LaneDigit(s, i + 2) * B13 * B13 + LaneDigit(s, i + 3) * B13 * B13 * B13

\* the digits i.. of the lane value of seed s as a number
RECURSIVE LaneFrom(_, _)
LaneFrom(s, i) ==
    IF i > LANE_SIZE THEN <<>>
    ELSE CHOOSE v \in { BigAdd(BigMulSmall(hi, B13 * B13 * B13 * B13),
                               BigFromInt(LaneDigits4(s, i))) :
                        hi \in { LaneFrom(s, i + 4) } } : TRUE

LaneValue(s) == LaneFrom(s, 0)

\* common::ROTATION_CONSTANTS, the rho offsets of Keccak-f[1600]
ROTATION_CONSTANTS ==
    << <<0, 36, 3, 41, 18>>, <<1, 44, 10, 45, 2>>, <<62, 6, 43, 15, 61>>,
       <<28, 55, 25, 21, 56>>, <<27, 20, 39, 8, 14>> >>

\* the rotation of lane i under table t: table 0 is ROTATION_CONSTANTS, the
\* others are tables of even rotations below 32
RotationOf(t, i) ==
    IF t = 0 THEN ROTATION_CONSTANTS[(i \div 5) + 1][(i % 5) + 1]
    ELSE (2 * t * i) % (LANE_SIZE \div 2)

\* ------------------------------------------------------------------------
\* State
\* ------------------------------------------------------------------------
VARIABLES
    seed,               \* the seed of the lane values
    block_count_k,      \* the block count the base13-to-base9 table reports
    table,              \* the rotation table (-1: one lane of any rotation)
    lane_xy,            \* the lane being converted, 0..24
    rotation,           \* LaneRotateConversionConfig.rotation
    configs,            \* LaneRotateConversionConfig.chunk_rotate_convert_configs
    lane_base_13,       \* the value of the incoming lane
    pc,                 \* "ingest", "chunk", "special", "done", "error",
                        \* "panic", "abort", "final", "final_done"
    offset,             \* the row offset in the region of the lane
    rv,                 \* the RotatingVariables
    low_value,          \* digit 0 of the lane
    all_block_counts,   \* the block count cells of the chunk rows so far
    regions,            \* regions[i + 1]: the region of lane i
    enabled,            \* the <<selector, region, row>> enabled
    copies,             \* the pairs of cells constrained equal
    result,             \* the (lane, block_counts) the lane returned
    block_count_cells,  \* the block counts returned by the lanes so far
    final_region,       \* the region of the final block count check
    final_offset,       \* the row offset in the final region
    others              \* the conversion of another lane, set aside

vars == <<seed, block_count_k, table, lane_xy, rotation, configs, lane_base_13,
          pc, offset, rv, low_value, all_block_counts, regions, enabled, copies,
          result, block_count_cells, final_region, final_offset, others>>

\* one region for all lanes
RegionShared == regions[1]

\* the region of the lane being converted
Region == regions[lane_xy + 1]

\* the region identifier of the final check, and of the cells of the caller
FinalRegion == NumLanes
Upstream == -1

NoRv == [input_raw |-> <<>>, input_power_of_base |-> <<>>, input_acc |-> <<>>,
         output_power_of_base |-> <<>>, output_acc |-> <<>>,
         block_count_acc |-> << <<>>, <<>> >>]
NoResult == [lane |-> [cell |-> <<Upstream, "none", 0>>, value |-> NoVal],
             block_counts |-> NoBlockCounts]

\* the state of a lane after LaneRotateConversionConfig::configure
LaneConfigured(r, v) ==
    /\ rotation = r
    /\ configs = chunk_rotate_convert_configs(r)
    /\ lane_base_13 = v
    /\ pc = IF ConfigureAborts(chunk_rotate_convert_configs(r)) THEN "abort" ELSE "ingest"
    /\ offset = 0
    /\ rv = NoRv
    /\ low_value = 0
    /\ all_block_counts = <<>>
    /\ result = NoResult

\* no other lane is being converted
NoOthers == <<>>

InitCommon ==
    /\ lane_xy = 0
    /\ others = NoOthers
    /\ regions = <<EmptyRegion>>
    /\ enabled = {}
    /\ copies = {}
    /\ block_count_cells = <<>>
    /\ final_region = EmptyRegion
    /\ final_offset = 0

\* one lane of any rotation
Init ==
    /\ seed \in 1..NumSeeds
    /\ block_count_k \in 0..MaxBlockCount
    /\ table = -1
    /\ \E r \in 0..(LANE_SIZE - 1) : LaneConfigured(r, LaneValue(seed))
    /\ InitCommon

\* the 25 lanes of a rotation table and the final check, with block counts
\* at and above the bounds of the final check
InitFinal ==
    /\ seed = NumSeeds
    /\ block_count_k \in {0, 12, 13, 13 * 13, 13 * 13 + 1}
    /\ table \in 0..NumTables
    /\ LaneConfigured(RotationOf(table, 0), LaneValue(seed))
    /\ InitCommon

\* ------------------------------------------------------------------------
\* LaneRotateConversionConfig::assign_region, one step of the callback at a
\* time
\* ------------------------------------------------------------------------
LaneVars == <<seed, block_count_k, table, lane_xy, rotation, configs, lane_base_13>>
FinalVars == <<block_count_cells, final_region, final_offset>>

\* offset 0: the incoming lane is assigned and constrained equal to the cell
\* of the caller; the rotating variables are made and the low digit taken off
Ingest ==
    /\ pc = "ingest"
    /\ regions' = [regions EXCEPT ![lane_xy + 1] =
                      assign_advice(@, base_13_cols[3], 0, lane_base_13)]
    /\ copies' = copies \cup
                   { {<<Upstream, "lane", lane_xy>>, <<lane_xy, base_13_cols[3], 0>>} }
    /\ offset' = 1
    /\ all_block_counts' = <<>>
    /\ low_value' = DivSmallFrom(f_to_biguint(lane_base_13), B13,
                                 Len(f_to_biguint(lane_base_13)), 0).r
    /\ rv' = [RotatingVariablesFrom(lane_base_13, rotation) EXCEPT
                !.input_raw = BigDivSmall(@, B13)]
    /\ pc' = IF Len(configs) = 0 THEN "special" ELSE "chunk"
    /\ UNCHANGED <<LaneVars, enabled, result, FinalVars, others>>

\* one iteration of the loop over chunk_rotate_convert_configs
ChunkRow ==
    /\ pc = "chunk"
    /\ LET res == ChunkAssign(configs[offset], Region, lane_xy, offset, rv,
                              block_count_k)
       IN  /\ regions' = [regions EXCEPT ![lane_xy + 1] = res.reg]
           /\ rv' = res.rv
           /\ IF res.status = "ok"
              THEN /\ offset' = offset + 1
                   /\ all_block_counts' = Append(all_block_counts, res.block_counts)
                   /\ pc' = IF offset + 1 > Len(configs) THEN "special" ELSE "chunk"
              ELSE /\ pc' = res.status
                   /\ UNCHANGED <<offset, all_block_counts>>
    /\ UNCHANGED <<LaneVars, low_value, enabled, copies, result, FinalVars, others>>

\* all_block_counts.first()
first_block_counts(all) == all[1]

\* all_block_counts.last()
last_block_counts(all) == all[Len(all)]

\* after the loop: the special chunk, and the pair returned
SpecialChunk ==
    /\ pc = "special"
    /\ LET high_value == DivSmallFrom(rv.input_raw, B13, Len(rv.input_raw), 0).r
           res == SpecialChunkAssign(Region, lane_xy, offset, rotation, low_value,
                                     high_value, rv.input_acc, rv.output_acc)
       IN  /\ enabled' = enabled \cup {<<"q_is_special", lane_xy, offset>>}
           /\ regions' = [regions EXCEPT ![lane_xy + 1] = res.reg]
           /\ IF res.ok /\ Len(all_block_counts) > 0
              THEN /\ result' = [lane |-> res.lane,
                                 block_counts |-> last_block_counts(all_block_counts)]
                   /\ block_count_cells' =
                          Append(block_count_cells,
                                 last_block_counts(all_block_counts))
                   /\ pc' = "done"
              ELSE /\ pc' = "error"
                   /\ UNCHANGED <<result, block_count_cells>>
    /\ UNCHANGED <<LaneVars, offset, rv, low_value, all_block_counts, copies,
                   final_region, final_offset, others>>

\* the caller goes on to the next lane of the state
NextLane ==
    /\ pc = "done"
    /\ lane_xy + 1 < NumLanes
    /\ lane_xy' = lane_xy + 1
    /\ rotation' = RotationOf(table, lane_xy + 1)
    /\ configs' = chunk_rotate_convert_configs(RotationOf(table, lane_xy + 1))
    /\ lane_base_13' = LaneValue(seed + lane_xy + 1)
    /\ pc' = IF ConfigureAborts(chunk_rotate_convert_configs(RotationOf(table, lane_xy + 1)))
             THEN "abort" ELSE "ingest"
    /\ offset' = 0
    /\ rv' = NoRv
    /\ low_value' = 0
    /\ all_block_counts' = <<>>
    /\ result' = NoResult
    /\ regions' = Append(regions, EmptyRegion)
    /\ UNCHANGED <<seed, block_count_k, table, enabled, copies, FinalVars, others>>

\* BlockCountFinalConfig::assign_region, one iteration of the loop over
\* block_count_cells: the gate is enabled at offset, the two totals are
\* assigned and constrained equal to the cells of the lane
FinalRow ==
    /\ pc \in {"done", "final"}
    /\ Len(block_count_cells) = NumLanes
    /\ final_offset < NumLanes
    /\ LET bc == block_count_cells[final_offset + 1]
       IN  /\ enabled' = enabled \cup {<<"q_enable", FinalRegion, final_offset>>}
           /\ final_region' =
                  assign_advice(
                      assign_advice(final_region, final_block_count_cols[1],
                                    final_offset, bc[1].value),
                      final_block_count_cols[2], final_offset, bc[2].value)
           /\ copies' = copies \cup
                  { {<<FinalRegion, final_block_count_cols[1], final_offset>>, bc[1].cell},
                    {<<FinalRegion, final_block_count_cols[2], final_offset>>, bc[2].cell} }
    /\ final_offset' = final_offset + 1
    /\ pc' = IF final_offset + 1 = NumLanes THEN "final_done" ELSE "final"
    /\ UNCHANGED <<LaneVars, offset, rv, low_value, all_block_counts, regions,
                   result, block_count_cells, others>>

Next == Ingest \/ ChunkRow \/ SpecialChunk

Spec == Init /\ [][Next]_vars

NextFinal == Ingest \/ ChunkRow \/ SpecialChunk \/ NextLane \/ FinalRow

SpecFinal == InitFinal /\ [][NextFinal]_vars

\* the configuration and the locals of the conversion of the lane
Context ==
    [lane_xy |-> lane_xy, rotation |-> rotation, configs |-> configs,
     lane_base_13 |-> lane_base_13, pc |-> pc, offset |-> offset, rv |-> rv,
     low_value |-> low_value, all_block_counts |-> all_block_counts,
     result |-> result]

\* the conversion of lane i after LaneRotateConversionConfig::configure
ContextConfigured(i, r, v) ==
    [lane_xy |-> i, rotation |-> r, configs |-> chunk_rotate_convert_configs(r),
     lane_base_13 |-> v, pc |-> "ingest", offset |-> 0, rv |-> NoRv,
     low_value |-> 0, all_block_counts |-> <<>>, result |-> NoResult]

\* the lanes 0 and 1 of a rotation table, each with its region, before their
\* callbacks start
InitOrder ==
    /\ seed \in 1..NumSeeds
    /\ block_count_k = MaxBlockCount
    /\ table \in 1..NumTables
    /\ LaneConfigured(RotationOf(table, 0), LaneValue(seed))
    /\ lane_xy = 0
    /\ others = ContextConfigured(1, RotationOf(table, 1), LaneValue(seed + 1))
    /\ regions = <<EmptyRegion, EmptyRegion>>
    /\ enabled = {}
    /\ copies = {}
    /\ block_count_cells = <<>>
    /\ final_region = EmptyRegion
    /\ final_offset = 0

\* the host goes on with the other lane: the conversion of the lane is set
\* aside with its locals, the one set aside is taken up where it was
Switch ==
    /\ DOMAIN others /= {}
    /\ others' = Context
    /\ lane_xy' = others.lane_xy
    /\ rotation' = others.rotation
    /\ configs' = others.configs
    /\ lane_base_13' = others.lane_base_13
    /\ pc' = others.pc
    /\ offset' = others.offset
    /\ rv' = others.rv
    /\ low_value' = others.low_value
    /\ all_block_counts' = others.all_block_counts
    /\ result' = others.result
    /\ UNCHANGED <<seed, block_count_k, table, regions, enabled, copies, FinalVars>>

NextOrder == Ingest \/ ChunkRow \/ SpecialChunk \/ Switch

\* two lanes whose rows are processed in any order
SpecOrder == InitOrder /\ [][NextOrder]_vars

\* the region callback of a lane is at one of its steps
Running == pc \in {"ingest", "chunk", "special"}

\* the position of the callback moves on; every step of Next is such a step
Advance ==
    /\ Running
    /\ pc' \in {"chunk", "special", "done", "error", "panic", "abort"}
    /\ offset' \in 0..LANE_SIZE

\* the region callback of a lane is sequential code that runs to its end:
\* while it is at a step, its position moves on
SpecLive == Init /\ [][Next]_vars /\ WF_<<pc, offset>>(Advance)

\* ------------------------------------------------------------------------
\* Claims
\* ------------------------------------------------------------------------
\* digit i of the lane being converted
InputDigit(i) == LaneDigit(seed + lane_xy, i)

\* digit j (0..63) of the lane rotated by the rotation: digit i of the input
\* converted, at position (i + rotation) mod 64, and the parity of the digits
\* 0 and 64 at position rotation
RotatedDigit(j) ==
    IF j >= LANE_SIZE THEN 0
    ELSE IF j = rotation
    THEN (InputDigit(0) + InputDigit(LANE_SIZE)) % 2
    ELSE convert_b13_coef(InputDigit((j + LANE_SIZE - rotation) % LANE_SIZE))

RECURSIVE RotatedFrom(_)
RotatedFrom(j) ==
    IF j >= LANE_SIZE THEN <<>>
    ELSE CHOOSE v \in { BigAdd(BigMulSmall(hi, B9 * B9 * B9 * B9),
                               BigFromInt(RotatedDigit(j) + RotatedDigit(j + 1) * B9
                                          + RotatedDigit(j + 2) * B9 * B9
                                          + RotatedDigit(j + 3) * B9 * B9 * B9)) :
                        hi \in { RotatedFrom(j + 4) } } : TRUE

\* C1: the lane returned by lane-rotate-conversion is the digit-wise converted
\* lane rotated by the rotation: the sum over i = 1..63 of
\* conv(d_i) * 9^((i + r) mod 64) plus parity(d_0 + d_64) * 9^r.
C1_RotatedLane == pc = "done" => result.lane.value = RotatedFrom(0)

\* the sum of the steps of the slices i..
RECURSIVE SumSteps(_, _)
SumSteps(s, i) == IF i > Len(s) THEN 0 ELSE s[i].step + SumSteps(s, i + 1)

\* C2: for every rotation, the steps of slice_lane are in 1..4 and sum to 63,
\* the end indices increase from the start index 1 by the steps to exactly
\* 64 (no gap, no overlap), and the abort for a step outside 1..4 is never
\* reached.
C2_SlicesPartition ==
    LET s == slice_lane(rotation)
    IN  /\ Len(s) > 0
        /\ \A i \in 1..Len(s) : s[i].step \in {1, 2, 3, 4}
        /\ SumSteps(s, 1) = LANE_SIZE - 1
        /\ \A i \in 1..Len(s) :
              s[i].chunk_idx = (IF i = 1 THEN 1 ELSE s[i - 1].chunk_idx) + s[i].step
        /\ s[Len(s)].chunk_idx = LANE_SIZE
        /\ Len(configs) = Len(s)
        /\ \A i \in 1..Len(s) : configs[i].step = s[i].step
        /\ pc /= "abort"

\* a lane cut at the rotation and at the lane end has been converted row by row
C2_Witness ==
    /\ pc = "done"
    /\ offset = Len(configs) + 1
    /\ \E i \in 1..Len(configs) : configs[i].step = 2
    /\ \E i \in 1..Len(configs) : configs[i].step = 1
    /\ \E i \in 1..Len(configs) : configs[i].step = 4

\* C3: for every rotation exactly one group of slice_lane is at the rotation
\* offset, and when that group has been processed output_power_of_base is 1.
C3_OneRotationOffset ==
    /\ pc \in {"special", "done"}
        => Cardinality({i \in 1..Len(configs) : configs[i].is_at_rotation_offset}) = 1
    /\ (pc \in {"chunk", "special"} /\ offset > 1
            /\ configs[offset - 1].is_at_rotation_offset)
        => rv.output_power_of_base = <<1>>

\* the number of groups of step st
CountStep(st) == Cardinality({i \in 1..Len(configs) : configs[i].step = st})

\* C6: with every group's block count the same k, the pair returned has the
\* step2 total k * (number of groups of step 2) and the step3 total
\* k * (number of groups of step 3); groups of step 1 or 4 add nothing.
C6_BlockCountRouting ==
    pc = "done" =>
        /\ result.block_counts[1].value = BigFromInt(block_count_k * CountStep(2))
        /\ result.block_counts[2].value = BigFromInt(block_count_k * CountStep(3))

\* a converted lane with a group of step 2 or 3 among groups of step 4 and a
\* block count above 1
C6_Witness ==
    /\ pc = "done"
    /\ block_count_k > 1
    /\ CountStep(2) + CountStep(3) > 0
    /\ CountStep(4) > 0
    /\ result.block_counts[1].value /= result.block_counts[2].value

\* the chunk rows of the lane
ChunkRows == 1..Len(configs)

\* the chunk rows looked at in a state: while the lane is being converted the
\* row before the newest row, and every chunk row once the callback has ended
CheckedRows ==
    IF pc \in {"ingest", "chunk", "special"} THEN {offset - 2} \cap ChunkRows
    ELSE ChunkRows

AssignedAll(reg, cols, row) == \A i \in 1..3 : Assigned(reg, cols[i], row)

\* C7: for every chunk row the accumulator written on the next row is the
\* accumulator of the row minus coef * power_of_base in the base-13 columns
\* and plus coef * power_of_base in the base-9 columns, the special-chunk row
\* after the last chunk row included.
C7_RunningSum ==
    \A row \in CheckedRows :
        /\ (row < offset /\ (row + 1 < offset \/ pc = "done"))
               => /\ AssignedAll(Region, base_13_cols, row)
                  /\ AssignedAll(Region, base_9_cols, row)
                  /\ Assigned(Region, base_13_cols[3], row + 1)
                  /\ Assigned(Region, base_9_cols[3], row + 1)
        /\ (AssignedAll(Region, base_13_cols, row)
                /\ Assigned(Region, base_13_cols[3], row + 1))
               => mul_running_poly(Region, base_13_cols, TRUE, row) = <<>>
        /\ (AssignedAll(Region, base_9_cols, row)
                /\ Assigned(Region, base_9_cols[3], row + 1))
               => mul_running_poly(Region, base_9_cols, FALSE, row) = <<>>

\* the special-chunk row has been written after a last chunk row with
\* coefficients other than zero
C7_Witness ==
    /\ pc = "done"
    /\ CellVal(Region, base_13_cols[1], Len(configs)) /= <<>>
    /\ CellVal(Region, base_9_cols[1], Len(configs)) /= <<>>
    /\ CellVal(Region, base_9_cols[3], Len(configs) + 1)
          /= CellVal(Region, base_9_cols[3], Len(configs))

\* C8: for every chunk row followed by a chunk row, in the base-13 and in
\* the base-9 columns, power_of_base on the next row is power_of_base of the
\* row times base^step.
C8_PowerOfBase ==
    \A row \in CheckedRows :
        (row + 1 \in ChunkRows
            /\ AssignedAll(Region, base_13_cols, row + 1)
            /\ AssignedAll(Region, base_9_cols, row + 1))
        => /\ mul_power_poly(Region, base_13_cols, B13, configs[row].step, row) = <<>>
           /\ mul_power_poly(Region, base_9_cols, B9, configs[row].step, row) = <<>>

\* C9: for every chunk row of step 2 the step2 total on the next row is the
\* step2 total of the row plus the block count of the row and the step3
\* total is the same on both rows; for a row of step 3 the step3 total
\* advances by the block count of the row and the step2 total is the same.
C9_TotalsAdvance ==
    \A row \in CheckedRows :
        (configs[row].step \in {2, 3}
            /\ AssignedAll(Region, block_count_cols, row)
            /\ AssignedAll(Region, block_count_cols, row + 1))
        => \A i \in 1..2 :
              accumulate_block_count_polys(Region, configs[row].step, row)[i] = <<>>

\* C10: for every chunk row of step 1 or 4 the block count written on the
\* row is 0 and both totals on the next row are the totals of the row.
C10_TotalsUnchanged ==
    \A row \in CheckedRows :
        (configs[row].step \in {1, 4}
            /\ AssignedAll(Region, block_count_cols, row)
            /\ AssignedAll(Region, block_count_cols, row + 1))
        => \A i \in 1..3 :
              accumulate_block_count_polys(Region, configs[row].step, row)[i] = <<>>

\* the value of a selector of a region at a row
SelectorVal(selector, id, row) ==
    IF <<selector, id, row>> \in enabled THEN <<1>> ELSE <<>>

\* the rows of the final check looked at in a state: the newest row while the
\* rows are being assigned, and every row once all are
FinalCheckedRows ==
    IF pc = "final_done" THEN 0..(NumLanes - 1)
    ELSE {final_offset - 1} \cap 0..(NumLanes - 1)

\* C4: on each row of the final check the identity of the step2 total is
\* satisfied exactly when the total is one of 0..12 and the identity of the
\* step3 total exactly when the total is one of 0..169, whatever the other
\* rows hold.
C4_FinalBounds ==
    \A row \in FinalCheckedRows :
        LET polys == block_count_final_polys(
                         final_region, SelectorVal("q_enable", FinalRegion, row), row)
        IN  /\ polys[1] = <<>>
                <=> BigLe(CellVal(final_region, final_block_count_cols[1], row),
                          BigFromInt(12))
            /\ polys[2] = <<>>
                <=> BigLe(CellVal(final_region, final_block_count_cols[2], row),
                          BigFromInt(169))

\* all 25 rows are assigned, a row within the bounds with a total other than
\* zero next to a row with a step2 total above 12
C4_Witness ==
    /\ pc = "final_done"
    /\ \E i, j \in 0..(NumLanes - 1) :
          /\ BigLe(CellVal(final_region, final_block_count_cols[1], i), BigFromInt(12))
          /\ BigLe(CellVal(final_region, final_block_count_cols[2], i), BigFromInt(169))
          /\ CellVal(final_region, final_block_count_cols[2], i) /= <<>>
          /\ ~BigLe(CellVal(final_region, final_block_count_cols[1], j), BigFromInt(12))

\* the last chunk row of lane i
LastChunkRow(i) == Len(slice_lane(RotationOf(table, i)))

\* C5: the final check enables its gate on exactly the rows 0..24; row i
\* holds the step2 and step3 totals of lane i, each constrained equal to the
\* cell the conversion of lane i returned, which is the cell of the last chunk
\* row of the lane and holds the totals after all groups of the lane.
C5_FinalRows ==
    /\ {e \in enabled : e[1] = "q_enable"}
          = {<<"q_enable", FinalRegion, i>> : i \in 0..(final_offset - 1)}
    /\ pc = "final_done" => final_offset = NumLanes
    /\ pc = "done" =>
          /\ result.block_counts[1].value = rv.block_count_acc[1]
          /\ result.block_counts[2].value = rv.block_count_acc[2]
          /\ block_count_cells[lane_xy + 1] = result.block_counts
    /\ \A i \in 0..(final_offset - 1) : \A c \in 1..2 :
          /\ block_count_cells[i + 1][c].cell
                = <<i, block_count_cols[c + 1], LastChunkRow(i)>>
          /\ CellVal(final_region, final_block_count_cols[c], i)
                = CellVal(regions[i + 1], block_count_cols[c + 1], LastChunkRow(i))
          /\ {<<FinalRegion, final_block_count_cols[c], i>>,
              <<i, block_count_cols[c + 1], LastChunkRow(i)>>} \in copies
          /\ ~Assigned(regions[i + 1], block_count_cols[c + 1], LastChunkRow(i) + 1)

\* all 25 rows are assigned, with a step2 total and a step3 total other than
\* zero among them
C5_Witness ==
    /\ pc = "final_done"
    /\ final_offset = NumLanes
    /\ \E i, j \in 0..(NumLanes - 1) :
          /\ CellVal(final_region, final_block_count_cols[1], i) /= <<>>
          /\ CellVal(final_region, final_block_count_cols[2], j) /= <<>>

\* C11: on the special-chunk row, base_9_acc on the next row minus base_9_acc
\* on the row is the value of the last_b9_coef cell of the row times
\* 9^rotation, that cell holds the parity (low_value + high_value) mod 2, and
\* base_13_acc on the next row is 0.
C11_SpecialChunkRow ==
    pc = "done" =>
        /\ Assigned(Region, last_b9_coef_col, offset)
        /\ CellVal(Region, last_b9_coef_col, offset)
              = BigFromInt((InputDigit(0) + InputDigit(LANE_SIZE)) % 2)
        /\ validate_base_9_acc_poly(Region, rotation, offset) = <<>>
        /\ CellVal(Region, base_13_cols[3], offset + 1) = <<>>

\* the row boundaries of the lane: before the first group and after every
\* processed group
AtRowBoundary == pc \in {"chunk", "special"}

\* C12 as claimed: at every row boundary input_acc + input_power_of_base *
\* input_raw is the original lane value.
C12_InputInvariantClaimed ==
    AtRowBoundary =>
        BigAdd(rv.input_acc, BigMul(rv.input_power_of_base, rv.input_raw))
            = f_to_biguint(lane_base_13)

\* C12 amended: at every row boundary input_acc is the original lane value
\* less the digits 1.. decomposed so far at their weights, that is
\* input_acc + 13 * (lane div 13) = lane + input_power_of_base * input_raw.
C12_InputInvariant ==
    AtRowBoundary =>
        BigAdd(rv.input_acc, BigMulSmall(BigDivSmall(f_to_biguint(lane_base_13), B13), B13))
            = BigAdd(f_to_biguint(lane_base_13),
                     BigMul(rv.input_power_of_base, rv.input_raw))

\* all groups of a lane with a digit 0 and a digit 64 other than zero have
\* been processed, and digits are left in input_raw
C12_Witness ==
    /\ pc = "special"
    /\ InputDigit(0) /= 0
    /\ rv.input_raw = BigFromInt(InputDigit(LANE_SIZE))
    /\ rv.input_raw /= <<>>
    /\ rv.input_acc /= f_to_biguint(lane_base_13)

\* the sum of coef * power_of_base over the rows 1..row of the running-sum
\* columns cols, as an integer
RECURSIVE RowSum(_, _, _)
RowSum(reg, cols, row) ==
    IF row = 0 THEN <<>>
    ELSE BigAdd(RowSum(reg, cols, row - 1),
                BigMul(f_to_biguint(CellVal(reg, cols[1], row)),
                       f_to_biguint(CellVal(reg, cols[2], row))))

\* all chunk rows of the lane are written
ChunksWritten == pc \in {"special", "done"}

\* C13 as claimed: the sum of coef * power_of_base over the base-13 columns of
\* the lane's chunk rows is the original lane value.
C13_ReplayClaimed ==
    ChunksWritten =>
        RowSum(Region, base_13_cols, Len(configs)) = f_to_biguint(lane_base_13)

\* C13 amended: the sum of coef * power_of_base over the base-13 columns of
\* the lane's chunk rows, plus digit 0 and digit 64 at 13^64 (the two digits
\* the special chunk takes), is the original lane value.
C13_Replay ==
    ChunksWritten =>
        BigAdd(RowSum(Region, base_13_cols, Len(configs)),
               BigAdd(BigFromInt(InputDigit(0)),
                      BigMulSmall(BigPow(B13, LANE_SIZE), InputDigit(LANE_SIZE))))
            = f_to_biguint(lane_base_13)

\* a finished lane of 17 chunk rows whose digits 0 and 64 are not zero
C13_Witness ==
    /\ pc = "done"
    /\ Len(configs) = 17
    /\ InputDigit(0) /= 0
    /\ InputDigit(LANE_SIZE) /= 0
    /\ RowSum(Region, base_13_cols, Len(configs)) /= <<>>

\* the digits start .. start + step - 1 of the lane as one base-13 number
RECURSIVE GroupCoef(_, _)
GroupCoef(start, step) ==
    IF step = 0 THEN 0
    ELSE InputDigit(start) + B13 * GroupCoef(start + 1, step - 1)

\* the coefficient of the i-th group of the slicer
SlicerCoef(i) ==
    LET s == slice_lane(rotation)[i]
    IN  GroupCoef(s.chunk_idx - s.step, s.step)

\* a step of the lane keeps the order: row 0 takes the lane value and ties it
\* to the cell of the caller, row i takes the i-th group of the slicer, the
\* special chunk is at the row after the last group and returns the lane cell
\* and the block-count pair
C14_Step ==
    /\ pc = "ingest" =>
          /\ offset = 0 /\ offset' = 1
          /\ pc' \in {"chunk", "special"}
          /\ CellVal(regions'[lane_xy + 1], base_13_cols[3], 0) = lane_base_13
          /\ {<<Upstream, "lane", lane_xy>>, <<lane_xy, base_13_cols[3], 0>>} \in copies'
          /\ \A c \in DOMAIN regions'[lane_xy + 1] : c[2] = 0
    /\ pc = "chunk" =>
          /\ offset \in 1..Len(slice_lane(rotation))
          /\ pc' \in {"chunk", "special", "error"}
          /\ CellVal(regions'[lane_xy + 1], base_13_cols[1], offset)
                = BigFromInt(SlicerCoef(offset))
          /\ \A c \in DOMAIN regions'[lane_xy + 1] : c[2] <= offset
          /\ pc' /= "error" => offset' = offset + 1
          /\ pc' = "chunk" => offset < Len(slice_lane(rotation))
          /\ pc' = "special" => offset = Len(slice_lane(rotation))
    /\ pc = "special" =>
          /\ offset = Len(slice_lane(rotation)) + 1
          /\ pc' \in {"done", "error"}
          /\ <<"q_is_special", lane_xy, offset>> \in enabled'
          /\ pc' = "done" =>
                /\ result'.lane.cell = <<lane_xy, base_9_cols[3], offset + 1>>
                /\ result'.lane.value
                      = CellVal(regions'[lane_xy + 1], base_9_cols[3], offset + 1)
                /\ Len(result'.block_counts) = 2
                /\ \A j \in 1..2 :
                      result'.block_counts[j].cell
                          = <<lane_xy, block_count_cols[j + 1], offset - 1>>
    /\ pc \notin {"ingest", "chunk", "special"} => FALSE

\* C14: a lane-rotate-conversion goes from the ingest at row 0 through one
\* chunk row per group of the slicer, in the order of the slicer, at the
\* offsets 1..n, to the special chunk at offset n + 1 and then ends; unless an
\* embedding fails it ends in DONE with the rotated lane cell and the
\* block-count pair.
C14_FixedOrder ==
    /\ [][C14_Step]_vars
    /\ <>(pc \in {"done", "error"})
    /\ [](pc = "done" =>
            /\ result.lane.value /= NoVal
            /\ Len(result.block_counts) = 2)

\* a lane whose groups have the steps 1, 4, .., 4, 2 is done
C14_Witness ==
    /\ pc = "done"
    /\ rotation = 2
    /\ Len(configs) = 17
    /\ result.lane.cell = <<lane_xy, base_9_cols[3], 19>>

\* C15: every chunk row written by lane-rotate-conversion has the selector
\* q_enable of the chunk gates enabled on it.
C15_ChunkRowsEnabled ==
    \A row \in ChunkRows :
        Assigned(Region, base_13_cols[1], row) =>
            <<"q_enable", lane_xy, row>> \in enabled

\* the rotation cuts the group starting at idx
CutByRotation(idx) == idx < rotation /\ rotation < idx + BASE_NUM_OF_CHUNKS

\* the end of the lane cuts the group starting at idx
CutByLaneEnd(idx) == idx < LANE_SIZE /\ LANE_SIZE < idx + BASE_NUM_OF_CHUNKS

\* C16: for every start index idx the step is rotation - idx when
\* idx < rotation < idx + 4, otherwise 64 - idx when idx < 64 < idx + 4,
\* otherwise 4; no group of the lane has start < rotation < end, none ends
\* beyond 64, and a group both truncations apply to is cut at the rotation.
C16_StepRule ==
    /\ \A idx \in 1..(LANE_SIZE - 1) :
          get_step_size(idx, rotation)
              = IF CutByRotation(idx) THEN rotation - idx
                ELSE IF CutByLaneEnd(idx) THEN LANE_SIZE - idx
                ELSE 4
    /\ LET slices == slice_lane(rotation)
       IN  /\ Len(configs) = Len(slices)
           /\ \A i \in 1..Len(slices) :
                 LET end == slices[i].chunk_idx
                     start == end - slices[i].step
                 IN  /\ configs[i].step = slices[i].step
                     /\ ~(start < rotation /\ rotation < end)
                     /\ end <= LANE_SIZE
                     /\ CutByRotation(start) /\ CutByLaneEnd(start) => end = rotation

\* the lane of rotation 63 is done: its group starting at 61 is cut by the
\* rotation and by the end of the lane, and ends at 63
C16_Witness ==
    /\ pc = "done"
    /\ rotation = 63
    /\ \E i \in 1..Len(configs) :
          /\ slice_lane(rotation)[i].chunk_idx = 63
          /\ configs[i].step = 2
          /\ CutByRotation(61) /\ CutByLaneEnd(61)

\* C17: no embedding into the field fails while a lane is converted, and the
\* output power written to a chunk row is at most 9^63.
C17_NoEmbeddingFailure ==
    /\ pc /= "error"
    /\ \A row \in CheckedRows :
          Assigned(Region, base_9_cols[2], row) =>
              BigLe(f_to_biguint(CellVal(Region, base_9_cols[2], row)),
                    BigPow(B9, LANE_SIZE - 1))

\* the values of the rotating variables that are handed to the embedding
HandedValues ==
    {rv.input_power_of_base, rv.input_acc, rv.output_power_of_base, rv.output_acc}

\* C18: when an embedding into the field fails, the conversion of the lane
\* ends with an error at that row: the value that failed is not assigned, no
\* cell of a later row is assigned, the block counts of the row are not
\* assigned, and neither a lane cell nor a block-count pair is returned; as
\* long as no error is returned, every cell assigned holds an embedded value.
C18_ErrorStops ==
    /\ pc = "error" =>
          /\ result = NoResult
          /\ Len(block_count_cells) = lane_xy
          /\ \E v \in HandedValues : biguint_to_f(v) = NoVal
          /\ \A c \in DOMAIN Region :
                \/ c[2] <= offset
                \/ offset = Len(configs) + 1 /\ c = <<base_13_cols[3], offset + 1>>
          /\ offset <= Len(configs) =>
                /\ \E i \in 1..3 : ~Assigned(Region, base_13_cols[i], offset)
                                   \/ ~Assigned(Region, base_9_cols[i], offset)
                /\ \A i \in 1..3 : ~Assigned(Region, block_count_cols[i], offset)
    /\ pc /= "error" =>
          \A c \in DOMAIN Region : c[2] >= offset - 1 => Region[c].val /= NoVal

\* the conversion of a lane has ended with an error at a chunk row after the
\* second: the output power of the row did not embed, its coefficient is
\* assigned
C18_Witness ==
    /\ pc = "error"
    /\ offset > 2
    /\ biguint_to_f(rv.output_power_of_base) = NoVal
    /\ AssignedAll(Region, base_13_cols, offset)
    /\ Assigned(Region, base_9_cols[1], offset)
    /\ ~Assigned(Region, base_9_cols[2], offset)

\* C19: at every row boundary output_acc is the sum, over the chunk rows
\* written so far, of the output coefficient of the row times the output
\* power of base written on the row (the power in effect for the group); it
\* is 0 before the first group.
C19_OutputAcc ==
    AtRowBoundary =>
        /\ rv.output_acc = RowSum(Region, base_9_cols, offset - 1)
        /\ offset = 1 => rv.output_acc = <<>>

\* all groups of a lane are processed, the power was reset at a group before
\* the last one, and the output accumulator is not zero
C19_Witness ==
    /\ pc = "special"
    /\ rv.output_acc /= <<>>
    /\ \E i \in 1..(Len(configs) - 1) :
          /\ configs[i].is_at_rotation_offset
          /\ CellVal(Region, base_9_cols[2], i + 1) = <<1>>
          /\ CellVal(Region, base_9_cols[1], i + 1) /= <<>>

\* the rotating variables after the groups i.. of a lane converted alone
RECURSIVE ChunksAlone(_, _, _, _)
ChunksAlone(cfgs, i, rv0, k) ==
    IF i > Len(cfgs) THEN rv0
    ELSE CHOOSE v \in { ChunksAlone(cfgs, i + 1, r, k) :
                        r \in { ChunkAssign(cfgs[i], EmptyRegion, 0, i, rv0, k).rv } } : TRUE

\* the lane value and the block counts of the lane of value v and rotation r
\* converted alone, from the ingest to the special chunk
LaneAlone(v, r, k) ==
    LET cfgs == chunk_rotate_convert_configs(r)
        low == DivSmallFrom(f_to_biguint(v), B13, Len(f_to_biguint(v)), 0).r
        rv0 == [RotatingVariablesFrom(v, r) EXCEPT !.input_raw = BigDivSmall(@, B13)]
        rvN == ChunksAlone(cfgs, 1, rv0, k)
        high == DivSmallFrom(rvN.input_raw, B13, Len(rvN.input_raw), 0).r
        sp == SpecialChunkAssign(EmptyRegion, 0, Len(cfgs) + 1, r, low, high,
                                 rvN.input_acc, rvN.output_acc)
    IN  [lane |-> sp.lane.value, block_counts |-> rvN.block_count_acc]

\* the last row a conversion in the context c has assigned a cell of
LastRowOf(c) ==
    IF c.pc = "ingest" THEN -1
    ELSE IF c.pc = "done" THEN c.offset + 1
    ELSE c.offset - 1

\* the conversion in the context c is the conversion of its lane alone: what
\* it returned is what the lane of its value and rotation returns alone, in
\* cells of the region of the lane, and that region holds no row of another
\* conversion
LaneApart(c) ==
    /\ c.lane_base_13 = LaneValue(seed + c.lane_xy)
    /\ c.rotation = RotationOf(table, c.lane_xy)
    /\ \A cell \in DOMAIN regions[c.lane_xy + 1] : cell[2] <= LastRowOf(c)
    /\ c.pc = "done" =>
          LET alone == LaneAlone(LaneValue(seed + c.lane_xy),
                                 RotationOf(table, c.lane_xy), block_count_k)
          IN  /\ c.result.lane.value = alone.lane
              /\ c.result.lane.cell[1] = c.lane_xy
              /\ CellVal(regions[c.lane_xy + 1], c.result.lane.cell[2],
                         c.result.lane.cell[3]) = alone.lane
              /\ \A j \in 1..2 :
                    /\ c.result.block_counts[j].value = alone.block_counts[j]
                    /\ c.result.block_counts[j].cell[1] = c.lane_xy
                    /\ CellVal(regions[c.lane_xy + 1], c.result.block_counts[j].cell[2],
                               c.result.block_counts[j].cell[3])
                          = alone.block_counts[j]

C21_InputAcc ==
    /\ AtRowBoundary =>
          rv.input_acc = BigAdd(BigFromInt(low_value),
                                BigMul(rv.input_power_of_base, rv.input_raw))
    /\ pc /= "panic"
    /\ pc \in {"special", "done"} =>
          /\ rv.input_power_of_base = BigPow(B13, LANE_SIZE)
          /\ rv.input_raw = BigFromInt(InputDigit(LANE_SIZE))
          /\ low_value = InputDigit(0)
    /\ pc = "done" =>
          f_to_biguint(CellVal(Region, base_13_cols[3], offset))
              = BigAdd(BigFromInt(low_value),
                       BigMulSmall(BigPow(B13, LANE_SIZE), InputDigit(LANE_SIZE)))

\* a lane whose digits 0 and 64 are not zero is done: the special chunk has
\* assigned the accumulator left by the last group
C21_Witness ==
    /\ pc = "done"
    /\ low_value /= 0
    /\ InputDigit(LANE_SIZE) /= 0
    /\ CellVal(Region, base_13_cols[3], offset) = rv.input_acc
    /\ BigLt(BigFromInt(low_value), rv.input_acc)

\* the columns a chunk row assigns
ChunkColumns ==
    {base_13_cols[i] : i \in 1..3} \cup {base_9_cols[i] : i \in 1..3}
        \cup {block_count_cols[i] : i \in 1..3}

\* the columns the special chunk assigns
SpecialColumns == {base_13_cols[3], base_9_cols[3]}

\* C22: in the region of a lane no cell is assigned twice; row 0 holds only
\* the ingested lane value, the chunk rows 1..n hold one cell per column of
\* the chunk, the special chunk assigns only the base-13 and base-9
\* accumulators at the rows n + 1 and n + 2, and a converted lane of n groups
\* occupies exactly the n + 3 rows 0..n + 2.
C22_NoCellTwice ==
    /\ \A c \in DOMAIN Region :
          /\ Region[c].n = 1
          /\ c[2] = 0 => c = <<base_13_cols[3], 0>>
          /\ c[2] \in ChunkRows => c[1] \in ChunkColumns /\ c[2] <= offset
          /\ c[2] \notin ChunkRows /\ c[2] /= 0 =>
                /\ c[1] \in SpecialColumns
                /\ c[2] \in {Len(configs) + 1, Len(configs) + 2}
                /\ pc \in {"done", "error"}
    /\ pc /= "ingest" => Assigned(Region, base_13_cols[3], 0)
    /\ \A row \in ChunkRows :
          (row < offset /\ pc \in {"chunk", "special", "done"}) =>
              \A col \in ChunkColumns : Assigned(Region, col, row)
    /\ pc = "done" =>
          /\ {c[2] : c \in DOMAIN Region} = 0..(Len(configs) + 2)
          /\ Cardinality({c[2] : c \in DOMAIN Region}) = Len(configs) + 3
          /\ \A col \in SpecialColumns : \A row \in {offset, offset + 1} :
                Assigned(Region, col, row)

\* a lane of 17 groups is converted: its region has the 20 rows 0..19, the
\* last two with the accumulators of the special chunk only
C22_Witness ==
    /\ pc = "done"
    /\ Len(configs) = 17
    /\ offset = 18
    /\ Cardinality(DOMAIN Region) = 1 + 9 * 17 + 4
    /\ Assigned(Region, base_9_cols[3], 19)
    /\ ~Assigned(Region, base_9_cols[1], 18)

====
